---- MODULE Spec2Model ----
(***************************************************************************)
(* Model of the leego request dispatcher (leego.go): middleware chain      *)
(* composition, the pooled execution context, the result handlers, the     *)
(* default HTTP error handler and reverse URI generation; and of the       *)
(* trailing-slash middleware (middleware/slash.go).                        *)
(*                                                                         *)
(* Strings that the code inspects byte by byte (paths) are sequences of    *)
(* one-character strings; opaque strings (messages, methods) are strings.  *)
(* Middleware and handlers are user code: a middleware is identified by    *)
(* the chain it was registered in and its position there, and what it does *)
(* when it runs (call next, return an error, panic) is chosen when it runs.*)
(* Registration (Pre, Use, add) is not synchronised in the code, so it is  *)
(* modelled only while no request is in flight.                            *)
(***************************************************************************)
EXTENDS Integers, Sequences, FiniteSets, TLC

\* ------------------------------------------------------------------ bounds
MaxMw == 2          \* longest middleware list of each chain
MaxCtx == 2         \* contexts the pool's factory may create
MaxInflight == 2    \* request slots (goroutines running ServeHTTP)
MaxParams == 2      \* most values passed to one URI call
MaxCalls == 2       \* URI calls recorded for one registry and one argument list
MaxSlash == 2       \* most trailing-slash middleware registered with Pre

\* ------------------------------------------------------------ constants
HEAD == "HEAD"
GET == "GET"
StatusNotFound == 404
StatusMethodNotAllowed == 405
StatusInternalServerError == 500

Reqs == 1..MaxInflight
SeqReqs == {1}                       \* the slot used by the sequential server
ReqMethods == {GET, HEAD}
RouteMethods == {GET}
PathA == <<"/", "a">>
PathB == <<"/", "b">>
PatId == <<"/", ":", "i">>
RoutePaths == {PathA, PatId}
ReqPaths == {PathA, PathB}
Handlers == {"h1"}
Langs == {"en"}

RouteKeys == RouteMethods \X RoutePaths
NoHandler == <<>>
NoRoute == [Method |-> "", Path |-> <<>>, Handler |-> ""]

\* --------------------------------------------------------------- errors
Nil == [type |-> "nil"]

\* http.StatusText for the codes used
StatusText(code) ==
    CASE code = 400 -> "Bad Request"
      [] code = 404 -> "Not Found"
      [] code = 405 -> "Method Not Allowed"
      [] code = 500 -> "Internal Server Error"
      [] OTHER -> ""

\* NewHTTPError(code, msg...): msg is a sequence of at most one message
NewHTTPError(code, msg) ==
    [type |-> "HTTPError", code |-> code,
     message |-> IF Len(msg) > 0 THEN msg[1] ELSE StatusText(code)]

\* errors.New(m)
NewError(m) == [type |-> "error", message |-> m]

\* the error the handler wrapped into middleware m returns when it returns one
StopError(m) == [type |-> "error", message |-> "stopped", chain |-> m.chain, idx |-> m.idx]

\* (*HTTPError).Error and the Error method of any other error
ErrorMessage(e) == e.message

ErrNotFound == NewHTTPError(StatusNotFound, <<>>)
ErrMethodNotAllowed == NewHTTPError(StatusMethodNotAllowed, <<>>)

\* ------------------------------------------------------- handler values
\* A handler value is the sequence of its layers, outermost first; the last
\* layer is a terminal handler. Wrapping prepends one middleware layer.
MwLayer(chain, i) == [kind |-> "mw", chain |-> chain, idx |-> i]
DispatchLayer == [kind |-> "dispatch"]
UserLayer(h) == [kind |-> "user", handler |-> h]
NotFoundHandler == <<[kind |-> "notfound"]>>
MethodNotAllowedHandler == <<[kind |-> "notallowed"]>>

\* middleware[i](h): the factory of a middleware wraps h
Wrap(m, h) == <<m>> \o h

\* for i := len(middleware) - 1; i >= 0; i-- { h = middleware[i](h) }
RECURSIVE FoldFrom(_, _, _)
FoldFrom(middleware, i, h) ==
    IF i < 1 THEN h ELSE FoldFrom(middleware, i - 1, Wrap(middleware[i], h))

ComposeBad(middleware, h) ==
    IF Len(middleware) = 0 THEN h
    ELSE FoldFrom([i \in 1..Len(middleware) |->
                      middleware[Len(middleware) + 1 - i]], Len(middleware), h)

Compose(middleware, h) == FoldFrom(middleware, Len(middleware), h)

\* the factory calls the fold makes, in the order it makes them
FactoryCalls(middleware) ==
    [i \in 1..Len(middleware) |->
        [ev |-> "factory", chain |-> middleware[Len(middleware) + 1 - i].chain,
         idx |-> middleware[Len(middleware) + 1 - i].idx]]

\* ---------------------------------------------------------------- router
\* index of the first "/" of s at or after i, Len(s) + 1 if there is none
RECURSIVE NextSlash(_, _)
NextSlash(s, i) == IF i > Len(s) \/ s[i] = "/" THEN i ELSE NextSlash(s, i + 1)

\* the parameter names of a path pattern, in pattern order
RECURSIVE PNames(_, _)
PNames(pat, i) ==
    IF i > Len(pat) THEN <<>>
    ELSE IF pat[i] = ":"
         THEN <<SubSeq(pat, i + 1, NextSlash(pat, i) - 1)>> \o PNames(pat, NextSlash(pat, i))
    ELSE IF pat[i] = "*" THEN <<<<"*">>>>
    ELSE PNames(pat, i + 1)

\* <<whether path[j..] matches pat[i..], the parameter values captured>>: a
\* static byte matches itself, ":name" one segment, "*" the rest of the path
RECURSIVE MatchFrom(_, _, _, _)
MatchFrom(pat, i, path, j) ==
    IF i > Len(pat) THEN <<j > Len(path), <<>>>>
    ELSE IF pat[i] = ":"
         THEN LET rest == MatchFrom(pat, NextSlash(pat, i), path, NextSlash(path, j))
              IN <<rest[1], <<SubSeq(path, j, NextSlash(path, j) - 1)>> \o rest[2]>>
    ELSE IF pat[i] = "*" THEN <<TRUE, <<SubSeq(path, j, Len(path))>>>>
    ELSE IF j <= Len(path) /\ path[j] = pat[i] THEN MatchFrom(pat, i + 1, path, j + 1)
    ELSE <<FALSE, <<>>>>

SegRank(ch) == IF ch = "*" THEN 2 ELSE IF ch = ":" THEN 1 ELSE 0

\* static > parameter > wildcard at the first byte where two patterns part
Prefer(p, q) ==
    \E i \in 1..Len(p) :
        /\ i <= Len(q)
        /\ SubSeq(p, 1, i - 1) = SubSeq(q, 1, i - 1)
        /\ SegRank(p[i]) < SegRank(q[i])

\* the registered patterns of a method that match a path
Matching(t, method, path) ==
    {k \in DOMAIN t : k[1] = method /\ t[k] # NoHandler /\ MatchFrom(k[2], 1, path, 1)[1]}

\* Router.Find: what it leaves on the context, or that it ran out of
\* parameter slots (an index out of range on c.pvalues)
Find(t, method, path, c) ==
    LET m == Matching(t, method, path)
    IN IF m # {}
       THEN LET k == CHOOSE x \in m : \A y \in m : ~Prefer(y[2], x[2])
                vals == MatchFrom(k[2], 1, path, 1)[2]
            IN IF Len(vals) > Len(c.pvalues)
               THEN [panic |-> TRUE, ctx |-> c]
               ELSE [panic |-> FALSE,
                     ctx |-> [c EXCEPT !.handler = t[k],
                                       !.pnames = PNames(k[2], 1),
                                       !.pvalues = [i \in 1..Len(c.pvalues) |->
                                           IF i <= Len(vals) THEN vals[i] ELSE c.pvalues[i]]]]
       ELSE IF \E o \in RouteMethods : Matching(t, o, path) # {}
            THEN [panic |-> FALSE, ctx |-> [c EXCEPT !.handler = MethodNotAllowedHandler]]
            ELSE [panic |-> FALSE, ctx |-> [c EXCEPT !.handler = NotFoundHandler]]

\* ---------------------------------------------------------------- context
NewContextUnsized(mp) ==
    [request |-> 0, handler |-> NotFoundHandler, pnames |-> <<>>,
     pvalues |-> <<>>, data |-> {}, lang |-> ""]

\* NewContext(nil, nil), with mp the value of *e.maxParam
NewContext(mp) ==
    [request |-> 0, handler |-> NotFoundHandler, pnames |-> <<>>,
     pvalues |-> [i \in 1..mp |-> <<>>], data |-> {}, lang |-> ""]

\* (*echoContext).Reset(req, res)
Reset(c, r) ==
    [c EXCEPT !.request = r, !.handler = NotFoundHandler, !.pnames = <<>>,
              !.pvalues = [i \in 1..Len(c.pvalues) |-> <<>>], !.data = {}]

\* (*echoContext).SetLang
SetLang(c, l) == [c EXCEPT !.lang = l]

AfterGetNoReset(c, r, lang) == SetLang([c EXCEPT !.request = r], lang)

\* ServeHTTP: c.Reset(req, res); c.SetLang(...)
AfterGet(c, r, lang) == SetLang(Reset(c, r), lang)

ServeChainGlobalFirst(pre, mw) == Compose(pre \o mw, <<DispatchLayer>>)

\* ServeHTTP: the dispatch closure (which refers to the global middleware mw
\* only when it runs), wrapped in the premiddleware
ServeChain(pre, mw) == Compose(pre, <<DispatchLayer>>)

DispatchChainBareDefault(mw, h) == IF h = NotFoundHandler THEN h ELSE Compose(mw, h)

\* the dispatch closure: c.handler wrapped in the global middleware
DispatchChain(mw, h) == Compose(mw, h)

\* the closure of add: the handler wrapped in the route's middleware
RouteChain(handler, mws) == Compose(mws, <<UserLayer(handler)>>)

\* the factory calls add itself makes: none, the fold is inside the closure
AddFactoryCalls(mws) == <<>>

\* the closure add hands to the router: it captures handler and middleware;
\* made are the factory calls add made when it built the closure (history)
RouteClosure(handler, mws) ==
    <<[kind |-> "route", handler |-> handler, middleware |-> mws,
       made |-> AddFactoryCalls(mws)]>>

RouteFactoryCallsPrefolded(mws) == <<>>

\* the factory calls the closure of add makes each time it runs
RouteFactoryCalls(mws) == FactoryCalls(mws)

ResultHandlerSwapped(error) == IF error # Nil THEN "success" ELSE "error"

\* ResponseHandler: which of httpErrorHandler and httpSuccessHandler runs
ResultHandler(error) == IF error # Nil THEN "error" ELSE "success"

\* --------------------------------------------------------------- response
\* c.String(code, msg) on the response: status, one body write, committed
String(res, code, msg) ==
    [committed |-> TRUE, status |-> code, body |-> Append(res.body, msg)]

\* c.NoContent(code): the status only
NoContent(res, code) == [res EXCEPT !.committed = TRUE, !.status = code]

DefaultHTTPErrorHandlerRaw(dbg, error, res, method) ==
    LET code == IF error.type = "HTTPError" THEN error.code ELSE StatusInternalServerError
    IN IF ~res.committed
       THEN IF method = HEAD THEN NoContent(res, code)
            ELSE String(res, code, ErrorMessage(error))
       ELSE res

DefaultHTTPErrorHandlerOverwrite(dbg, error, res, method) ==
    LET he == error.type = "HTTPError"
        code == IF he THEN error.code ELSE StatusInternalServerError
        msg0 == IF he THEN error.message ELSE StatusText(StatusInternalServerError)
        msg == IF dbg THEN ErrorMessage(error) ELSE msg0
    IN IF method = HEAD THEN NoContent(res, code) ELSE String(res, code, msg)

DefaultHTTPErrorHandlerHeadBody(dbg, error, res, method) ==
    LET he == error.type = "HTTPError"
        code == IF he THEN error.code ELSE StatusInternalServerError
        msg0 == IF he THEN error.message ELSE StatusText(StatusInternalServerError)
        msg == IF dbg THEN ErrorMessage(error) ELSE msg0
    IN IF ~res.committed THEN String(res, code, msg) ELSE res

\* DefaultHTTPErrorHandler(err, c), with dbg the value of e.debug, res the
\* response of c and method the method of its request
DefaultHTTPErrorHandler(dbg, error, res, method) ==
    LET he == error.type = "HTTPError"
        code == IF he THEN error.code ELSE StatusInternalServerError
        msg0 == IF he THEN error.message ELSE StatusText(StatusInternalServerError)
        msg == IF dbg THEN ErrorMessage(error) ELSE msg0
    IN IF ~res.committed
       THEN IF method = HEAD THEN NoContent(res, code) ELSE String(res, code, msg)
       ELSE res

\* DefaultHTTPSuccessHandler(c)
DefaultHTTPSuccessHandler(res) == res

\* -------------------------------------------------- trailing-slash middleware
Root == <<"/">>

\* the request URI of a path and a query string
WithQuery(path, qs) == IF qs # <<>> THEN path \o <<"?">> \o qs ELSE path

\* req.SetURI(uri)
SetURI(req, uri) == [req EXCEPT !.uri = uri]

\* url.SetPath(path)
SetPath(req, path) == [req EXCEPT !.path = path]

\* c.Redirect(code, uri): the Location header and the status code
Redirect(res, code, uri) ==
    [committed |-> TRUE, status |-> code, body |-> res.body, location |-> uri]

\* what a trailing-slash middleware does with a request: "skip", "pass" (next
\* is called with the request as it is), "forward" (next is called with the
\* rewritten request), "redirect" (next is not called) or "panic"
SlashOutcome(did, req, res, target) ==
    [did |-> did, req |-> req, res |-> res, target |-> target]

AddTrailingSlashUriOnly(code, skip, req, res) ==
    IF skip THEN SlashOutcome("skip", req, res, <<>>)
    ELSE IF req.path # Root /\ Len(req.path) = 0
         THEN SlashOutcome("panic", req, res, <<>>)
    ELSE IF req.path # Root /\ req.path[Len(req.path)] # "/"
         THEN LET path == req.path \o <<"/">>
                  uri == WithQuery(path, req.query)
              IN IF code # 0
                 THEN SlashOutcome("redirect", req, Redirect(res, code, uri), uri)
                 ELSE SlashOutcome("forward", SetURI(req, uri), res, uri)
    ELSE SlashOutcome("pass", req, res, <<>>)

\* the handler AddTrailingSlashWithConfig(config) returns, with code the
\* RedirectCode of config and skip what config.Skipper(c) returns
AddTrailingSlash(code, skip, req, res) ==
    IF skip THEN SlashOutcome("skip", req, res, <<>>)
    ELSE IF req.path # Root /\ Len(req.path) = 0
         THEN SlashOutcome("panic", req, res, <<>>)     \* path[len(path)-1], index -1
    ELSE IF req.path # Root /\ req.path[Len(req.path)] # "/"
         THEN LET path == req.path \o <<"/">>
                  uri == WithQuery(path, req.query)
              IN IF code # 0
                 THEN SlashOutcome("redirect", req, Redirect(res, code, uri), uri)
                 ELSE SlashOutcome("forward", SetPath(SetURI(req, uri), path), res, uri)
    ELSE SlashOutcome("pass", req, res, <<>>)

\* the handler RemoveTrailingSlashWithConfig(config) returns
RemoveTrailingSlash(code, skip, req, res) ==
    IF skip THEN SlashOutcome("skip", req, res, <<>>)
    ELSE LET l == Len(req.path) - 1 IN
         IF l >= 0 /\ req.path # Root /\ req.path[l + 1] = "/"
         THEN LET path == SubSeq(req.path, 1, l)
                  uri == WithQuery(path, req.query)
              IN IF code # 0
                 THEN SlashOutcome("redirect", req, Redirect(res, code, uri), uri)
                 ELSE SlashOutcome("forward", SetPath(SetURI(req, uri), path), res, uri)
         ELSE SlashOutcome("pass", req, res, <<>>)

\* a trailing-slash middleware registered in a chain
SlashLayer(op, code, chain, i) ==
    [kind |-> "slash", op |-> op, code |-> code, chain |-> chain, idx |-> i]

\* -------------------------------------------------------------------- URI
\* a value passed to URI: a string, or an int
StringValue(str) == [kind |-> "string", s |-> str]
IntValue(n) == [kind |-> "int", n |-> n]

DecimalDigits == <<"0", "1", "2", "3", "4", "5", "6", "7", "8", "9">>

\* the decimal form of an int
RECURSIVE Itoa(_)
Itoa(n) ==
    IF n < 0 THEN <<"-">> \o Itoa(0 - n)
    ELSE IF n < 10 THEN <<DecimalDigits[n + 1]>>
    ELSE Itoa(n \div 10) \o <<DecimalDigits[(n % 10) + 1]>>

\* fmt.Sprintf("%v", v)
Sprintf(v) == IF v.kind = "int" THEN Itoa(v.n) ELSE v.s

\* for ; i < l && r.Path[i] != '/'; i++ {}
RECURSIVE SkipSegment(_, _)
SkipSegment(path, i) ==
    IF i <= Len(path) /\ path[i] # "/" THEN SkipSegment(path, i + 1) ELSE i

RECURSIVE URIFrom(_, _, _, _)
URIFromFirstValue(path, i, params, n) ==
    IF i > Len(path) THEN <<>>
    ELSE LET sub == path[i] = ":" /\ n < Len(params)
             j == IF sub THEN SkipSegment(path, i) ELSE i
         IN (IF sub THEN Sprintf(params[1]) ELSE <<>>) \o
            (IF j <= Len(path) THEN <<path[j]>> ELSE <<>>) \o
            URIFrom(path, j + 1, params, IF sub THEN n + 1 ELSE n)

\* what the loop of URI writes to the buffer from index i of the path of the
\* route on, when n of the values are used up
URIFrom(path, i, params, n) ==
    IF i > Len(path) THEN <<>>
    ELSE LET sub == path[i] = ":" /\ n < Len(params)
             j == IF sub THEN SkipSegment(path, i) ELSE i
         IN (IF sub THEN Sprintf(params[n + 1]) ELSE <<>>) \o
            (IF j <= Len(path) THEN <<path[j]>> ELSE <<>>) \o
            URIFrom(path, j + 1, params, IF sub THEN n + 1 ELSE n)

\* the URI built from one route
RouteURI(route, params) == URIFrom(route.Path, 1, params, 0)

\* URI(handler, params...): the range over the map e.router.routes visits the
\* routes in an order the language leaves open and stops at the first one
\* whose Handler is the name; every route of that name may be the one
URIResults(reg, name, params) ==
    LET named == {k \in DOMAIN reg : reg[k].Handler = name}
    IN IF named = {} THEN {<<>>} ELSE {RouteURI(reg[k], params) : k \in named}

\* ----------------------------------------------------------------- events
EvGet(c) == [ev |-> "get", ctx |-> c]
EvReset == [ev |-> "reset"]
EvEnter(m) == [ev |-> "enter", chain |-> m.chain, idx |-> m.idx]
EvExit(m) == [ev |-> "exit", chain |-> m.chain, idx |-> m.idx]
EvStop(m) == [ev |-> "stop", chain |-> m.chain, idx |-> m.idx]
EvFind == [ev |-> "find"]
EvRoute == [ev |-> "route"]
EvHandler(h) == [ev |-> "handler", name |-> h]
EvResult(e) == [ev |-> "result", err |-> e]
EvWrite(who) == [ev |-> "write", by |-> who]
EvPanic == [ev |-> "panic"]
EvError(e, c, res) == [ev |-> "errorHandler", err |-> e, ctx |-> c, before |-> res]
EvSuccess(c) == [ev |-> "successHandler", ctx |-> c]
EvPut(c) == [ev |-> "put", ctx |-> c]
EvSlash(m, skip, req, o) ==
    [ev |-> "slash", op |-> m.op, code |-> m.code, idx |-> m.idx, skip |-> skip,
     before |-> req, after |-> o.req, did |-> o.did, target |-> o.target, res |-> o.res]

\* what a user handler may do: set a value in the data bag, write a response,
\* and return nil or an error, or panic
HandlerOutcomes ==
    { [set |-> FALSE, write |-> FALSE, ret |-> Nil, panic |-> FALSE],
      [set |-> TRUE, write |-> FALSE, ret |-> Nil, panic |-> FALSE],
      [set |-> FALSE, write |-> TRUE, ret |-> Nil, panic |-> FALSE],
      [set |-> FALSE, write |-> FALSE, ret |-> NewHTTPError(400, <<"bad">>),
       panic |-> FALSE],
      [set |-> FALSE, write |-> FALSE, ret |-> NewError("boom"), panic |-> FALSE],
      [set |-> TRUE, write |-> TRUE, ret |-> NewError("boom"), panic |-> FALSE],
      [set |-> FALSE, write |-> FALSE, ret |-> Nil, panic |-> TRUE] }

\* ---------------------------------------------------------------- state
VARIABLES
    premiddleware,   \* e.premiddleware
    middleware,      \* e.middleware
    maxParam,        \* *e.maxParam
    debug,           \* e.debug
    tree,            \* the router's handlers, by <<method, path pattern>>
    routes,          \* e.router.routes, by <<method, path pattern>>
    ctxs,            \* every context the pool's factory created, by id
    pool,            \* ids of the contexts in e.pool
    pc,              \* per request slot: where ServeHTTP is
    held,            \* per slot: id of the context c, 0 if none
    request,         \* per slot: req
    response,        \* per slot: res
    cur,             \* per slot: the handler value about to be called
    stack,           \* per slot: layers entered and not yet returned
    err,             \* per slot: the error being returned
    log,             \* per slot: what happened, in order (history)
    seen,            \* per slot: the context as Get returned it (history)
    order,           \* the keys of e.router.routes, in the order add first set them (history)
    uris             \* the URI calls made since add last ran, with the latest arguments (history)

vars == <<premiddleware, middleware, maxParam, debug, tree, routes, ctxs, pool,
          pc, held, request, response, cur, stack, err, log, seen, order, uris>>

config == <<premiddleware, middleware, maxParam, debug, tree, routes, order>>
perReq == <<pc, held, request, response, cur, stack, err, log, seen>>

NoRequest == [method |-> "", path |-> <<>>, query |-> <<>>, uri |-> <<>>, lang |-> ""]
NoResponse == [committed |-> FALSE, status |-> 0, body |-> <<>>]
NoCtx == [created |-> FALSE]
NoCalls == [handler |-> "", params |-> <<>>, results |-> <<>>]

\* New(): no middleware, no routes, maxParam = new(int), an empty pool
Init ==
    /\ premiddleware = <<>>
    /\ middleware = <<>>
    /\ maxParam = 0
    /\ debug = FALSE
    /\ tree = [k \in RouteKeys |-> NoHandler]
    /\ routes = [k \in RouteKeys |-> NoRoute]
    /\ ctxs = <<>>
    /\ pool = {}
    /\ pc = [r \in Reqs |-> "idle"]
    /\ held = [r \in Reqs |-> 0]
    /\ request = [r \in Reqs |-> NoRequest]
    /\ response = [r \in Reqs |-> NoResponse]
    /\ cur = [r \in Reqs |-> <<>>]
    /\ stack = [r \in Reqs |-> <<>>]
    /\ err = [r \in Reqs |-> Nil]
    /\ log = [r \in Reqs |-> <<>>]
    /\ seen = [r \in Reqs |-> NoCtx]
    /\ order = <<>>
    /\ uris = NoCalls

\* no ServeHTTP call is running
Quiescent == \A r \in Reqs : pc[r] = "idle"

\* ---------------------------------------------------------- registration
\* Pre(middleware...), one middleware per call
Pre ==
    /\ Quiescent
    /\ Len(premiddleware) < MaxMw
    /\ premiddleware' = Append(premiddleware, MwLayer("pre", Len(premiddleware) + 1))
    /\ UNCHANGED <<middleware, maxParam, debug, tree, routes, order, uris, ctxs, pool, perReq>>

\* Use(middleware...), one middleware per call
Use ==
    /\ Quiescent
    /\ Len(middleware) < MaxMw
    /\ middleware' = Append(middleware, MwLayer("use", Len(middleware) + 1))
    /\ UNCHANGED <<premiddleware, maxParam, debug, tree, routes, order, uris, ctxs, pool, perReq>>

MwList(chain, n) == [i \in 1..n |-> MwLayer(chain, i)]

\* whether s holds x
InSeq(s, x) == \E i \in 1..Len(s) : s[i] = x

\* add(method, path, handler, middleware...): Router.Add stores the closure
\* and raises maxParam; the registry keeps the route by method+path
addRoute(method, path, handler, mws) ==
    /\ Quiescent
    /\ tree' = [tree EXCEPT ![<<method, path>>] = RouteClosure(handler, mws)]
    /\ maxParam' = IF Len(PNames(path, 1)) > maxParam
                   THEN Len(PNames(path, 1)) ELSE maxParam
    /\ routes' = [routes EXCEPT ![<<method, path>>] =
                    [Method |-> method, Path |-> path, Handler |-> handler]]
    /\ order' = IF InSeq(order, <<method, path>>) THEN order
                ELSE Append(order, <<method, path>>)
    /\ uris' = NoCalls
    /\ UNCHANGED <<premiddleware, middleware, debug, ctxs, pool, perReq>>

add ==
    \E method \in RouteMethods, path \in RoutePaths, handler \in Handlers, n \in 0..MaxMw :
        addRoute(method, path, handler, MwList("route", n))

\* ------------------------------------------------------------- ServeHTTP
AcquireForShared(r, methods, paths) ==
    /\ pc[r] = "idle"
    /\ \E method \in methods, path \in paths, lang \in Langs :
        request' = [request EXCEPT ![r] =
                       [method |-> method, path |-> path, query |-> <<>>,
                        uri |-> path, lang |-> lang]]
    /\ \/ \E c \in pool :
            /\ pool' = pool
            /\ ctxs' = ctxs
            /\ held' = [held EXCEPT ![r] = c]
            /\ seen' = [seen EXCEPT ![r] = ctxs[c]]
            /\ log' = [log EXCEPT ![r] = <<EvGet(c)>>]
       \/ /\ pool = {}
          /\ Len(ctxs) < MaxCtx
          /\ pool' = pool
          /\ ctxs' = Append(ctxs, NewContext(maxParam))
          /\ held' = [held EXCEPT ![r] = Len(ctxs) + 1]
          /\ seen' = [seen EXCEPT ![r] = NewContext(maxParam)]
          /\ log' = [log EXCEPT ![r] = <<EvGet(Len(ctxs) + 1)>>]
    /\ pc' = [pc EXCEPT ![r] = "got"]
    /\ response' = [response EXCEPT ![r] = [committed |-> FALSE, status |-> 0, body |-> <<>>]]
    /\ UNCHANGED <<config, uris, cur, stack, err>>

\* c := e.pool.Get().(*echoContext): a pooled context, or a new one from the
\* pool's factory when the pool is empty (an item the pool dropped is gone
\* like one that was never put, and is replaced the same way)
\* for a request with one of the methods and one of the paths
AcquireFor(r, methods, paths) ==
    /\ pc[r] = "idle"
    /\ \E method \in methods, path \in paths, lang \in Langs :
        request' = [request EXCEPT ![r] =
                       [method |-> method, path |-> path, query |-> <<>>,
                        uri |-> path, lang |-> lang]]
    /\ \/ \E c \in pool :
            /\ pool' = pool \ {c}
            /\ ctxs' = ctxs
            /\ held' = [held EXCEPT ![r] = c]
            /\ seen' = [seen EXCEPT ![r] = ctxs[c]]
            /\ log' = [log EXCEPT ![r] = <<EvGet(c)>>]
       \/ /\ pool = {}
          /\ Len(ctxs) < MaxCtx
          /\ pool' = pool
          /\ ctxs' = Append(ctxs, NewContext(maxParam))
          /\ held' = [held EXCEPT ![r] = Len(ctxs) + 1]
          /\ seen' = [seen EXCEPT ![r] = NewContext(maxParam)]
          /\ log' = [log EXCEPT ![r] = <<EvGet(Len(ctxs) + 1)>>]
    /\ pc' = [pc EXCEPT ![r] = "got"]
    /\ response' = [response EXCEPT ![r] = [committed |-> FALSE, status |-> 0, body |-> <<>>]]
    /\ UNCHANGED <<config, uris, cur, stack, err>>

\* ServeHTTP(req, res) is entered
Acquire(r) == AcquireFor(r, ReqMethods, ReqPaths)

\* c.Reset(req, res); c.SetLang(...); then the chain is built: the dispatch
\* closure wrapped in the premiddleware
Prepare(r) ==
    /\ pc[r] = "got"
    /\ ctxs' = [ctxs EXCEPT ![held[r]] = AfterGet(ctxs[held[r]], r, request[r].lang)]
    /\ cur' = [cur EXCEPT ![r] = ServeChain(premiddleware, middleware)]
    /\ log' = [log EXCEPT ![r] = log[r] \o <<EvReset>> \o FactoryCalls(premiddleware)]
    /\ pc' = [pc EXCEPT ![r] = "call"]
    /\ UNCHANGED <<config, uris, pool, held, request, response, stack, err, seen>>

Calling(r, kinds) == pc[r] = "call" /\ cur[r] # <<>> /\ cur[r][1].kind \in kinds

MwCallRunsOn(r) ==
    /\ Calling(r, {"mw"})
    /\ LET m == cur[r][1] IN
        \/ /\ stack' = [stack EXCEPT ![r] = Append(stack[r], m)]
           /\ cur' = [cur EXCEPT ![r] = Tail(cur[r])]
           /\ log' = [log EXCEPT ![r] = Append(log[r], EvEnter(m))]
           /\ UNCHANGED <<pc, err>>
        \/ /\ err' = [err EXCEPT ![r] = StopError(m)]
           /\ stack' = [stack EXCEPT ![r] = Append(stack[r], m)]
           /\ cur' = [cur EXCEPT ![r] = Tail(cur[r])]
           /\ log' = [log EXCEPT ![r] = log[r] \o <<EvEnter(m), EvStop(m)>>]
           /\ UNCHANGED pc
        \/ /\ pc' = [pc EXCEPT ![r] = "panicked"]
           /\ log' = [log EXCEPT ![r] = log[r] \o <<EvEnter(m), EvPanic>>]
           /\ UNCHANGED <<cur, stack, err>>
    /\ seen' = [seen EXCEPT ![r] = NoCtx]
    /\ UNCHANGED <<config, uris, ctxs, pool, held, request, response>>

\* a middleware made by WrapMiddleware(h) runs: h returns nil and next is
\* called, or h returns an error and that is returned without calling next,
\* or h panics
MwCall(r) ==
    /\ Calling(r, {"mw"})
    /\ LET m == cur[r][1] IN
        \/ /\ stack' = [stack EXCEPT ![r] = Append(stack[r], m)]
           /\ cur' = [cur EXCEPT ![r] = Tail(cur[r])]
           /\ log' = [log EXCEPT ![r] = Append(log[r], EvEnter(m))]
           /\ UNCHANGED <<pc, err>>
        \/ /\ err' = [err EXCEPT ![r] = StopError(m)]
           /\ pc' = [pc EXCEPT ![r] = "ret"]
           /\ cur' = [cur EXCEPT ![r] = <<>>]
           /\ log' = [log EXCEPT ![r] = log[r] \o <<EvEnter(m), EvStop(m)>>]
           /\ UNCHANGED stack
        \/ /\ pc' = [pc EXCEPT ![r] = "panicked"]
           /\ log' = [log EXCEPT ![r] = log[r] \o <<EvEnter(m), EvPanic>>]
           /\ UNCHANGED <<cur, stack, err>>
    /\ seen' = [seen EXCEPT ![r] = NoCtx]
    /\ UNCHANGED <<config, uris, ctxs, pool, held, request, response>>

\* a trailing-slash middleware runs
SlashCall(r) ==
    /\ Calling(r, {"slash"})
    /\ \E skip \in BOOLEAN :
        LET m == cur[r][1]
            o == IF m.op = "add"
                 THEN AddTrailingSlash(m.code, skip, request[r], response[r])
                 ELSE RemoveTrailingSlash(m.code, skip, request[r], response[r])
        IN /\ log' = [log EXCEPT ![r] = log[r] \o <<EvSlash(m, skip, request[r], o)>> \o
                          (IF o.did = "panic" THEN <<EvPanic>> ELSE <<>>)]
           /\ request' = [request EXCEPT ![r] = o.req]
           /\ response' = [response EXCEPT ![r] = o.res]
           /\ CASE o.did = "panic" ->
                    /\ pc' = [pc EXCEPT ![r] = "panicked"]
                    /\ UNCHANGED <<cur, stack, err>>
                [] o.did = "redirect" ->
                    /\ pc' = [pc EXCEPT ![r] = "ret"]
                    /\ cur' = [cur EXCEPT ![r] = <<>>]
                    /\ err' = [err EXCEPT ![r] = Nil]
                    /\ UNCHANGED stack
                [] OTHER ->
                    /\ stack' = [stack EXCEPT ![r] = Append(stack[r], m)]
                    /\ cur' = [cur EXCEPT ![r] = Tail(cur[r])]
                    /\ UNCHANGED <<pc, err>>
    /\ seen' = [seen EXCEPT ![r] = NoCtx]
    /\ UNCHANGED <<config, uris, ctxs, pool, held>>

\* the dispatch closure: e.router.Find(method, path, c), then c.handler is
\* wrapped in the global middleware
Dispatch(r) ==
    /\ Calling(r, {"dispatch"})
    /\ LET f == Find(tree, request[r].method, request[r].path, ctxs[held[r]]) IN
        IF f.panic
        THEN /\ pc' = [pc EXCEPT ![r] = "panicked"]
             /\ log' = [log EXCEPT ![r] = log[r] \o <<EvFind, EvPanic>>]
             /\ UNCHANGED <<ctxs, cur, stack>>
        ELSE /\ ctxs' = [ctxs EXCEPT ![held[r]] = f.ctx]
             /\ cur' = [cur EXCEPT ![r] = DispatchChain(middleware, f.ctx.handler)]
             /\ stack' = [stack EXCEPT ![r] = Append(stack[r], cur[r][1])]
             /\ log' = [log EXCEPT ![r] = log[r] \o <<EvFind>> \o FactoryCalls(middleware)]
             /\ UNCHANGED pc
    /\ seen' = [seen EXCEPT ![r] = NoCtx]
    /\ UNCHANGED <<config, uris, pool, held, request, response, err>>

\* the closure add stored: the handler is wrapped in the route's middleware
RouteCall(r) ==
    /\ Calling(r, {"route"})
    /\ LET c == cur[r][1] IN
        /\ cur' = [cur EXCEPT ![r] = RouteChain(c.handler, c.middleware)]
        /\ stack' = [stack EXCEPT ![r] = Append(stack[r], c)]
        /\ log' = [log EXCEPT ![r] = log[r] \o <<EvRoute>> \o RouteFactoryCalls(c.middleware)]
    /\ UNCHANGED <<config, uris, ctxs, pool, pc, held, request, response, err, seen>>

\* the route's handler runs and does one of the things in outcomes
HandlerCallWith(r, outcomes) ==
    /\ Calling(r, {"user"})
    /\ \E o \in outcomes :
        IF o.panic
        THEN /\ pc' = [pc EXCEPT ![r] = "panicked"]
             /\ log' = [log EXCEPT ![r] = log[r] \o <<EvHandler(cur[r][1].handler), EvPanic>>]
             /\ UNCHANGED <<ctxs, response, err, cur>>
        ELSE /\ ctxs' = [ctxs EXCEPT ![held[r]].data =
                            IF o.set THEN @ \cup {"k"} ELSE @]
             /\ response' = [response EXCEPT ![r] =
                                IF o.write /\ ~@.committed THEN String(@, 200, "ok") ELSE @]
             /\ log' = [log EXCEPT ![r] = log[r] \o <<EvHandler(cur[r][1].handler)>> \o
                           (IF o.write THEN <<EvWrite("handler")>> ELSE <<>>) \o
                           <<EvResult(o.ret)>>]
             /\ err' = [err EXCEPT ![r] = o.ret]
             /\ cur' = [cur EXCEPT ![r] = <<>>]
             /\ pc' = [pc EXCEPT ![r] = "ret"]
    /\ UNCHANGED <<config, uris, pool, held, request, stack, seen>>

\* the route's handler runs
HandlerCall(r) == HandlerCallWith(r, HandlerOutcomes)

\* NotFoundHandler or MethodNotAllowedHandler runs
DefaultCall(r) ==
    /\ Calling(r, {"notfound", "notallowed"})
    /\ err' = [err EXCEPT ![r] =
                  IF cur[r][1].kind = "notfound" THEN ErrNotFound ELSE ErrMethodNotAllowed]
    /\ log' = [log EXCEPT ![r] = log[r] \o
                  <<EvHandler(cur[r][1].kind),
                    EvResult(IF cur[r][1].kind = "notfound"
                             THEN ErrNotFound ELSE ErrMethodNotAllowed)>>]
    /\ cur' = [cur EXCEPT ![r] = <<>>]
    /\ pc' = [pc EXCEPT ![r] = "ret"]
    /\ UNCHANGED <<config, uris, ctxs, pool, held, request, response, stack, seen>>

\* the innermost running layer returns to the layer that called it
Return(r) ==
    /\ pc[r] = "ret"
    /\ stack[r] # <<>>
    /\ LET top == stack[r][Len(stack[r])] IN
        /\ stack' = [stack EXCEPT ![r] = SubSeq(stack[r], 1, Len(stack[r]) - 1)]
        /\ log' = [log EXCEPT ![r] =
                      IF top.kind = "mw" THEN Append(log[r], EvExit(top)) ELSE log[r]]
    /\ UNCHANGED <<config, uris, ctxs, pool, pc, held, request, response, cur, err, seen>>

\* e.ResponseHandler(err, c): the error handler or the success handler
ResponseHandler(r) ==
    /\ pc[r] = "ret"
    /\ stack[r] = <<>>
    /\ IF ResultHandler(err[r]) = "error"
       THEN /\ response' = [response EXCEPT ![r] =
                               DefaultHTTPErrorHandler(debug, err[r], @, request[r].method)]
            /\ log' = [log EXCEPT ![r] = log[r] \o <<EvError(err[r], held[r], response[r])>> \o
                          (IF response[r].committed THEN <<>> ELSE <<EvWrite("errorHandler")>>)]
       ELSE /\ response' = [response EXCEPT ![r] = DefaultHTTPSuccessHandler(@)]
            /\ log' = [log EXCEPT ![r] = Append(log[r], EvSuccess(held[r]))]
    /\ pc' = [pc EXCEPT ![r] = "put"]
    /\ UNCHANGED <<config, uris, ctxs, pool, held, request, cur, stack, err, seen>>

PutUnlessError(r) ==
    /\ pc[r] = "put"
    /\ pool' = IF err[r] = Nil THEN pool \cup {held[r]} ELSE pool
    /\ log' = [log EXCEPT ![r] =
                  IF err[r] = Nil THEN Append(log[r], EvPut(held[r])) ELSE log[r]]
    /\ pc' = [pc EXCEPT ![r] = "done"]
    /\ UNCHANGED <<config, uris, ctxs, held, request, response, cur, stack, err, seen>>

\* e.pool.Put(c)
Put(r) ==
    /\ pc[r] = "put"
    /\ pool' = pool \cup {held[r]}
    /\ log' = [log EXCEPT ![r] = Append(log[r], EvPut(held[r]))]
    /\ pc' = [pc EXCEPT ![r] = "done"]
    /\ UNCHANGED <<config, uris, ctxs, held, request, response, cur, stack, err, seen>>

\* ServeHTTP is left: by its return, or by the panic, and then nothing refers
\* to the context any more and it is garbage
Leave(r) ==
    /\ pc[r] \in {"done", "panicked"}
    /\ ctxs' = IF pc[r] = "panicked" THEN [ctxs EXCEPT ![held[r]] = NoCtx] ELSE ctxs
    /\ pc' = [pc EXCEPT ![r] = "idle"]
    /\ held' = [held EXCEPT ![r] = 0]
    /\ request' = [request EXCEPT ![r] = NoRequest]
    /\ response' = [response EXCEPT ![r] = NoResponse]
    /\ cur' = [cur EXCEPT ![r] = <<>>]
    /\ stack' = [stack EXCEPT ![r] = <<>>]
    /\ err' = [err EXCEPT ![r] = Nil]
    /\ log' = [log EXCEPT ![r] = <<>>]
    /\ seen' = [seen EXCEPT ![r] = NoCtx]
    /\ UNCHANGED <<config, uris, pool>>

ServeHTTP(r) ==
    \/ Acquire(r)
    \/ Prepare(r)
    \/ MwCall(r)
    \/ Dispatch(r)
    \/ RouteCall(r)
    \/ HandlerCall(r)
    \/ DefaultCall(r)
    \/ Return(r)
    \/ ResponseHandler(r)
    \/ Put(r)
    \/ Leave(r)

Next ==
    \/ Pre
    \/ Use
    \/ add
    \/ \E r \in SeqReqs : ServeHTTP(r)

Spec == Init /\ [][Next]_vars

\* --------------------------------------------------- concurrent requests
\* One route with a parameter is registered, then ServeHTTP runs in every
\* request slot at once, the steps of the slots interleaved in any order.
InitConc ==
    /\ premiddleware = <<>>
    /\ middleware = <<>>
    /\ maxParam = 1
    /\ debug = FALSE
    /\ tree = [k \in RouteKeys |->
                  IF k = <<GET, PatId>> THEN RouteClosure("h1", <<>>) ELSE NoHandler]
    /\ routes = [k \in RouteKeys |->
                    IF k = <<GET, PatId>>
                    THEN [Method |-> GET, Path |-> PatId, Handler |-> "h1"] ELSE NoRoute]
    /\ order = <<<<GET, PatId>>>>
    /\ uris = NoCalls
    /\ ctxs = <<>>
    /\ pool = {}
    /\ pc = [r \in Reqs |-> "idle"]
    /\ held = [r \in Reqs |-> 0]
    /\ request = [r \in Reqs |-> NoRequest]
    /\ response = [r \in Reqs |-> NoResponse]
    /\ cur = [r \in Reqs |-> <<>>]
    /\ stack = [r \in Reqs |-> <<>>]
    /\ err = [r \in Reqs |-> Nil]
    /\ log = [r \in Reqs |-> <<>>]
    /\ seen = [r \in Reqs |-> NoCtx]

\* what the handler does there: it sets a value and returns nil, or panics
ConcOutcomes ==
    {o \in HandlerOutcomes : ~o.write /\ o.ret = Nil /\ (o.set \/ o.panic)}

NextConc ==
    \E r \in Reqs :
        \/ AcquireFor(r, {GET}, {PathA})
        \/ Prepare(r)
        \/ Dispatch(r)
        \/ RouteCall(r)
        \/ HandlerCallWith(r, ConcOutcomes)
        \/ Return(r)
        \/ ResponseHandler(r)
        \/ Put(r)
        \/ Leave(r)

SpecConc == InitConc /\ [][NextConc]_vars

\* ------------------------------------- trailing-slash middleware in Pre
\* Trailing-slash middleware is registered with Pre, routes for "/a" and
\* "/a/" are registered, and one request has been taken up: any path, with
\* or without a query string.
PathASlash == <<"/", "a", "/">>
PathASlashSlash == <<"/", "a", "/", "/">>
SlashRoutePaths == {PathA, PathASlash}
SlashKeys == {GET} \X SlashRoutePaths
SlashHandler(path) == IF path = PathA THEN "h1" ELSE "h2"
SlashPaths == {<<>>, Root, PathA, PathASlash, PathASlashSlash, <<"/", "/">>}
SlashQueries == {<<>>, <<"x", "=", "1">>}
RedirectCodes == {0, 301}
SlashLists ==
    UNION {[1..n -> {"add", "remove"} \X RedirectCodes] : n \in 1..MaxSlash}

InitSlash ==
    /\ \E l \in SlashLists :
          premiddleware = [i \in 1..Len(l) |-> SlashLayer(l[i][1], l[i][2], "pre", i)]
    /\ middleware = <<>>
    /\ maxParam = 0
    /\ debug = FALSE
    /\ tree = [k \in SlashKeys |-> RouteClosure(SlashHandler(k[2]), <<>>)]
    /\ routes = [k \in SlashKeys |->
                    [Method |-> k[1], Path |-> k[2], Handler |-> SlashHandler(k[2])]]
    /\ order = <<<<GET, PathA>>, <<GET, PathASlash>>>>
    /\ uris = NoCalls
    /\ ctxs = <<NewContext(0)>>
    /\ pool = {}
    /\ pc = [r \in Reqs |-> IF r = 1 THEN "got" ELSE "idle"]
    /\ held = [r \in Reqs |-> IF r = 1 THEN 1 ELSE 0]
    /\ \E path \in SlashPaths, qs \in SlashQueries :
          request = [r \in Reqs |->
                        IF r = 1 THEN [method |-> GET, path |-> path, query |-> qs,
                                       uri |-> WithQuery(path, qs), lang |-> "en"]
                        ELSE NoRequest]
    /\ response = [r \in Reqs |-> NoResponse]
    /\ cur = [r \in Reqs |-> <<>>]
    /\ stack = [r \in Reqs |-> <<>>]
    /\ err = [r \in Reqs |-> Nil]
    /\ log = [r \in Reqs |-> IF r = 1 THEN <<EvGet(1)>> ELSE <<>>]
    /\ seen = [r \in Reqs |-> IF r = 1 THEN NewContext(0) ELSE NoCtx]

NextSlashMw ==
    \E r \in SeqReqs :
        \/ Prepare(r)
        \/ SlashCall(r)
        \/ Dispatch(r)
        \/ RouteCall(r)
        \/ HandlerCall(r)
        \/ DefaultCall(r)
        \/ Return(r)
        \/ ResponseHandler(r)
        \/ Put(r)
        \/ Leave(r)

SpecSlash == InitSlash /\ [][NextSlashMw]_vars

\* ------------------------------------------------- reverse URI generation
\* Routes are registered and URI is called, in any order.
PatPosts == <<"/", "p", "o", "s", "t", "s", "/", ":", "i", "d", "/",
              "c", "o", "m", "m", "e", "n", "t", "s", "/", ":", "c", "i", "d">>
PatUser == <<"/", "u", "/", ":", "i", "/", "x">>
URIPaths == {PatPosts, PatUser, PathA}
URIKeys == {GET} \X URIPaths
URIHandlers == {"h1", "h2"}
URIValues == {StringValue(<<"7">>), IntValue(42)}
ParamLists == UNION {[1..n -> URIValues] : n \in 0..MaxParams}

InitURI ==
    /\ premiddleware = <<>>
    /\ middleware = <<>>
    /\ maxParam = 0
    /\ debug = FALSE
    /\ tree = [k \in URIKeys |-> NoHandler]
    /\ routes = [k \in URIKeys |-> NoRoute]
    /\ ctxs = <<>>
    /\ pool = {}
    /\ pc = [r \in Reqs |-> "idle"]
    /\ held = [r \in Reqs |-> 0]
    /\ request = [r \in Reqs |-> NoRequest]
    /\ response = [r \in Reqs |-> NoResponse]
    /\ cur = [r \in Reqs |-> <<>>]
    /\ stack = [r \in Reqs |-> <<>>]
    /\ err = [r \in Reqs |-> Nil]
    /\ log = [r \in Reqs |-> <<>>]
    /\ seen = [r \in Reqs |-> NoCtx]
    /\ order = <<>>
    /\ uris = NoCalls

\* GET(path, handler)
addGET == \E path \in URIPaths, handler \in URIHandlers : addRoute(GET, path, handler, <<>>)

\* URI(handler, params...)
URI ==
    /\ \E handler \in URIHandlers, params \in ParamLists :
        \E result \in URIResults(routes, handler, params) :
            uris' = IF /\ uris.handler = handler
                       /\ uris.params = params
                       /\ Len(uris.results) < MaxCalls
                    THEN [uris EXCEPT !.results = Append(@, result)]
                    ELSE [handler |-> handler, params |-> params, results |-> <<result>>]
    /\ UNCHANGED <<config, ctxs, pool, perReq>>

NextURI == addGET \/ URI

SpecURI == InitURI /\ [][NextURI]_vars

\* ============================================================== properties
\* the events of a log that are of the given kinds
Events(l, kinds) == SelectSeq(l, LAMBDA e : e.ev \in kinds)

\* the enter and exit events of one chain, and the events of the given kinds
ChainEvents(l, chain, kinds) ==
    SelectSeq(l, LAMBDA e : \/ e.ev \in {"enter", "exit"} /\ e.chain = chain
                            \/ e.ev \in kinds)

\* M0-enter, ..., Mn-1-enter, H, Mn-1-exit, ..., M0-exit
Onion(list, h) ==
    [i \in 1..Len(list) |-> EvEnter(list[i])] \o <<h>> \o
    [i \in 1..Len(list) |-> EvExit(list[Len(list) + 1 - i])]

\* every middleware of the request called its next handler, none panicked
AllCalledNext(r) == Events(log[r], {"stop", "panic"}) = <<>>

\* the chain of the request has returned to ServeHTTP
ChainReturned(r) == pc[r] \in {"put", "done"} \/ (pc[r] = "ret" /\ stack[r] = <<>>)

\* the route closure the router resolved for the request, if it resolved one
Resolved(r) == ctxs[held[r]].handler
RouteResolved(r) == Resolved(r) # NoHandler /\ Resolved(r)[1].kind = "route"

\* C1: in each of the three chains, when every middleware calls next, the
\* events are M0-enter, ..., Mn-1-enter, H, Mn-1-exit, ..., M0-exit, in the
\* order of declaration, with H (the router lookup for the premiddleware, the
\* terminal handler for the other two) run exactly once
C1_OnionOrder ==
    \A r \in Reqs :
        (ChainReturned(r) /\ AllCalledNext(r)) =>
            /\ ChainEvents(log[r], "pre", {"find"}) = Onion(premiddleware, EvFind)
            /\ \E h \in Handlers \cup {"notfound", "notallowed"} :
                /\ ChainEvents(log[r], "use", {"handler"}) = Onion(middleware, EvHandler(h))
                /\ ChainEvents(log[r], "route", {"handler"}) =
                      Onion(IF RouteResolved(r) THEN Resolved(r)[1].middleware ELSE <<>>,
                            EvHandler(h))

C1_Witness ==
    /\ pc[1] = "done"
    /\ AllCalledNext(1)
    /\ Len(premiddleware) = MaxMw
    /\ Len(middleware) = MaxMw
    /\ RouteResolved(1)
    /\ Len(Resolved(1)[1].middleware) = MaxMw
    /\ Len(Events(log[1], {"exit"})) = 3 * MaxMw

\* the stage of an event: premiddleware, routing, global middleware, route
\* middleware, handler, result handler
Stage(e) ==
    CASE e.ev = "enter" /\ e.chain = "pre" -> 1
      [] e.ev = "find" -> 2
      [] e.ev = "enter" /\ e.chain = "use" -> 3
      [] e.ev = "enter" /\ e.chain = "route" -> 4
      [] e.ev = "handler" -> 5
      [] e.ev \in {"errorHandler", "successHandler"} -> 6
      [] OTHER -> 0

Stages(l) ==
    LET staged == SelectSeq(l, LAMBDA e : Stage(e) # 0)
    IN [i \in 1..Len(staged) |-> Stage(staged[i])]

\* C2: when every middleware calls next, the stages of a request come in the
\* order premiddleware, router lookup, global middleware, route middleware,
\* handler, result handler: the lookup, the handler and the result handler
\* once each, every premiddleware before the lookup and every other
\* middleware after it
C2_StageOrder ==
    \A r \in Reqs :
        AllCalledNext(r) =>
            /\ LET st == Stages(log[r])
               IN \A i \in 1..(Len(st) - 1) :
                     /\ st[i] <= st[i + 1]
                     /\ st[i] \in {2, 5, 6} => st[i] < st[i + 1]
            /\ pc[r] \in {"put", "done"} =>
                  Stages(log[r]) =
                      [i \in 1..Len(premiddleware) |-> 1] \o <<2>> \o
                      [i \in 1..Len(middleware) |-> 3] \o
                      [i \in 1..(IF RouteResolved(r)
                                 THEN Len(Resolved(r)[1].middleware) ELSE 0) |-> 4] \o
                      <<5, 6>>

C2_Witness ==
    /\ pc[1] = "done"
    /\ AllCalledNext(1)
    /\ Stages(log[1]) = <<1, 2, 3, 4, 5, 6>>

\* the factory calls of the route chain in a log
RouteFactories(l) == SelectSeq(l, LAMBDA e : e.ev = "factory" /\ e.chain = "route")

\* C3 as stated: the factories of a route's middleware are called once each
\* by add, and by no request dispatched to the route
C3_FoldedAtRegistration ==
    /\ \A k \in RouteKeys :
          tree[k] # NoHandler => Len(tree[k][1].made) = Len(tree[k][1].middleware)
    /\ \A r \in Reqs : RouteFactories(log[r]) = <<>>

\* the route closure of the request has run
RouteRan(r) == Events(log[r], {"route"}) # <<>>

\* C3, amended: add calls no middleware factory; every request dispatched to
\* a route calls each factory of the route's middleware list exactly once,
\* last-declared first, when the stored closure runs
C3_FoldedPerRequest ==
    /\ \A k \in RouteKeys : tree[k] # NoHandler => tree[k][1].made = <<>>
    /\ \A r \in Reqs :
          RouteFactories(log[r]) =
              IF RouteRan(r) THEN FactoryCalls(Resolved(r)[1].middleware) ELSE <<>>

C3_Witness ==
    /\ pc[1] = "done"
    /\ RouteRan(1)
    /\ Len(RouteFactories(log[1])) = MaxMw
    /\ Len(ctxs) = 2
    /\ ctxs[1] = NoCtx

\* the result handler of the request has run
ResultEvents(l) == Events(l, {"errorHandler", "successHandler"})

\* C4: when the chain returns, with or without an error, the context is put
\* back into the pool exactly once, after the result handler has finished,
\* and not before
C4_PutOnceAfterResult ==
    \A r \in Reqs :
        /\ pc[r] = "done" =>
              /\ Events(log[r], {"put"}) = <<EvPut(held[r])>>
              /\ log[r][Len(log[r])] = EvPut(held[r])
              /\ Len(ResultEvents(log[r])) = 1
              /\ held[r] \in pool
        /\ pc[r] \in {"got", "call", "ret", "put"} =>
              /\ Events(log[r], {"put"}) = <<>>
              /\ held[r] \notin pool

C4_Witness ==
    /\ pc[1] = "done"
    /\ err[1] = NewError("boom")
    /\ Events(log[1], {"errorHandler"}) # <<>>
    /\ held[1] \in pool

\* C5 as stated: the context is released exactly once on every exit path of
\* ServeHTTP, a panic included, so that whenever no request is in flight
\* every context that was acquired is back in the pool
C5_ReleasedOnEveryExit ==
    /\ \A r \in Reqs :
          pc[r] \in {"done", "panicked"} =>
              /\ Events(log[r], {"put"}) = <<EvPut(held[r])>>
              /\ held[r] \in pool
    /\ Quiescent => \A c \in 1..Len(ctxs) : c \in pool

\* the request is about to make the first call of its chain
BeforeFirstCall(r) ==
    /\ pc[r] = "call"
    /\ Events(log[r], {"enter", "find"}) = <<>>

\* C6: whatever the previous request left on a pooled context, what the
\* first premiddleware of the next request sees on it is zero parameters, an
\* empty data bag and the not-found handler
C6_ResetBeforeChain ==
    \A r \in Reqs :
        BeforeFirstCall(r) =>
            /\ ctxs[held[r]].pnames = <<>>
            /\ \A i \in 1..Len(ctxs[held[r]].pvalues) : ctxs[held[r]].pvalues[i] = <<>>
            /\ ctxs[held[r]].data = {}
            /\ ctxs[held[r]].handler = NotFoundHandler
            /\ ctxs[held[r]].request = r
            /\ Events(log[r], {"get", "reset"}) = <<EvGet(held[r]), EvReset>>

C6_Witness ==
    /\ BeforeFirstCall(1)
    /\ premiddleware # <<>>
    /\ seen[1].pnames # <<>>
    /\ seen[1].pvalues # <<<<>>>>
    /\ seen[1].data # {}
    /\ seen[1].handler # NotFoundHandler

\* the writes of the error handler come right after its call
ErrorWritesFollowHandler(l) ==
    \A i \in 1..Len(l) :
        (l[i].ev = "write" /\ l[i].by # "handler") =>
            /\ l[i].by = "errorHandler"
            /\ i > 1
            /\ l[i - 1].ev = "errorHandler"

\* C7: when the chain returns, exactly one result handler runs, once, with
\* the context of the request: the error handler, with the error returned,
\* if there is one, the success handler otherwise; and nothing is written to
\* the response on account of an error except by that error handler call
C7_OneResultHandler ==
    \A r \in Reqs :
        /\ pc[r] \in {"put", "done"} =>
              /\ Len(ResultEvents(log[r])) = 1
              /\ IF err[r] # Nil
                 THEN /\ ResultEvents(log[r])[1].ev = "errorHandler"
                      /\ ResultEvents(log[r])[1].err = err[r]
                      /\ ResultEvents(log[r])[1].ctx = held[r]
                 ELSE ResultEvents(log[r]) = <<EvSuccess(held[r])>>
        /\ pc[r] \in {"got", "call", "ret", "panicked"} => ResultEvents(log[r]) = <<>>
        /\ ErrorWritesFollowHandler(log[r])
        /\ (pc[r] \in {"put", "done"} /\ err[r] = Nil) =>
              Events(log[r], {"write"}) \in {<<>>, <<EvWrite("handler")>>}

C7_Witness ==
    /\ pc[1] = "put"
    /\ err[1] = NewHTTPError(400, <<"bad">>)
    /\ ResultEvents(log[1]) = <<EvError(err[1], held[1], NoResponse)>>
    /\ response[1].status = 400

\* ------------------------------------------------- the error handler alone
\* The chain of a request has just returned an error: any error value, any
\* request method, either setting of the debug flag, and a response that the
\* chain left untouched or already committed.
ErrCodes == {400, StatusNotFound, StatusMethodNotAllowed, StatusInternalServerError}
ErrValues ==
    {NewHTTPError(c, <<>>) : c \in ErrCodes} \cup
    {NewHTTPError(c, <<"bad">>) : c \in ErrCodes} \cup
    {NewError(m) : m \in {"boom", "secret"}}
ErrMethods == {GET, HEAD, "POST"}
PriorResponses ==
    { [committed |-> FALSE, status |-> 0, body |-> <<>>],
      [committed |-> TRUE, status |-> 200, body |-> <<"ok">>],
      [committed |-> TRUE, status |-> 200, body |-> <<>>] }

InitErr ==
    /\ premiddleware = <<>>
    /\ middleware = <<>>
    /\ maxParam = 0
    /\ debug \in BOOLEAN
    /\ tree = [k \in RouteKeys |-> NoHandler]
    /\ routes = [k \in RouteKeys |-> NoRoute]
    /\ ctxs = <<AfterGet(NewContext(0), 1, "en")>>
    /\ pool = {}
    /\ pc = [r \in Reqs |-> IF r = 1 THEN "ret" ELSE "idle"]
    /\ held = [r \in Reqs |-> IF r = 1 THEN 1 ELSE 0]
    /\ \E method \in ErrMethods :
          request = [r \in Reqs |->
                        IF r = 1 THEN [method |-> method, path |-> PathA, query |-> <<>>,
                                       uri |-> PathA, lang |-> "en"]
                        ELSE NoRequest]
    /\ \E res \in PriorResponses :
          response = [r \in Reqs |-> IF r = 1 THEN res ELSE NoResponse]
    /\ cur = [r \in Reqs |-> <<>>]
    /\ stack = [r \in Reqs |-> <<>>]
    /\ \E e \in ErrValues : err = [r \in Reqs |-> IF r = 1 THEN e ELSE Nil]
    /\ log = [r \in Reqs |-> <<>>]
    /\ seen = [r \in Reqs |-> NoCtx]
    /\ order = <<>>
    /\ uris = NoCalls

NextErr == \E r \in SeqReqs : ResponseHandler(r) \/ Put(r) \/ Leave(r)

SpecErr == InitErr /\ [][NextErr]_vars

\* the error handler of the request has run
ErrorHandled(r) == pc[r] \in {"put", "done"} /\ Events(log[r], {"errorHandler"}) # <<>>

\* the response as it was when the error handler was called
Before(r) == Events(log[r], {"errorHandler"})[1].before

\* C8: on an uncommitted response of a request other than HEAD, the default
\* error handler writes the code and the message of a structured error; for
\* any other error it writes status 500 with the generic status text when
\* debug is off, and with the raw message of the error when debug is on
C8_ErrorRendering ==
    \A r \in Reqs :
        (ErrorHandled(r) /\ ~Before(r).committed /\ request[r].method # HEAD) =>
            /\ response[r].committed
            /\ err[r].type = "HTTPError" =>
                  /\ response[r].status = err[r].code
                  /\ response[r].body = <<err[r].message>>
            /\ (err[r].type # "HTTPError" /\ ~debug) =>
                  /\ response[r].status = 500
                  /\ response[r].body = <<"Internal Server Error">>
                  /\ response[r].body # <<err[r].message>>
            /\ (err[r].type # "HTTPError" /\ debug) =>
                  /\ response[r].status = 500
                  /\ response[r].body = <<err[r].message>>

C8_Witness ==
    /\ ErrorHandled(1)
    /\ ~Before(1).committed
    /\ request[1].method = GET
    /\ err[1] = NewError("secret")
    /\ ~debug
    /\ response[1] = [committed |-> TRUE, status |-> 500,
                      body |-> <<"Internal Server Error">>]

\* C9: if the response is already committed when the error handler is called,
\* the handler leaves the response as it was, whatever the error, the request
\* method and the debug setting
C9_CommittedUntouched ==
    \A r \in Reqs :
        (ErrorHandled(r) /\ Before(r).committed) =>
            /\ response[r] = Before(r)
            /\ Events(log[r], {"write"}) \in {<<>>, <<EvWrite("handler")>>}

C9_Witness ==
    /\ ErrorHandled(1)
    /\ Before(1) = [committed |-> TRUE, status |-> 200, body |-> <<"ok">>]
    /\ response[1] = Before(1)
    /\ err[1] = NewHTTPError(StatusNotFound, <<>>)
    /\ request[1].method = GET
    /\ debug

\* the status code the error handler derives from an error
ErrorCode(e) == IF e.type = "HTTPError" THEN e.code ELSE 500

\* C10 as stated: for a HEAD request whose chain returns an error, the
\* response gets the status code of the error and no body from the handler
C10_HeadStatusNoBody ==
    \A r \in Reqs :
        (ErrorHandled(r) /\ request[r].method = HEAD) =>
            /\ response[r].status = ErrorCode(err[r])
            /\ response[r].body = Before(r).body

\* C10, amended: for a HEAD request whose chain returns an error and whose
\* response is not committed yet, the response gets the status code of the
\* error and no body, for a structured or unstructured error, debug on or off
C10_HeadUncommitted ==
    \A r \in Reqs :
        (ErrorHandled(r) /\ request[r].method = HEAD /\ ~Before(r).committed) =>
            response[r] = [committed |-> TRUE, status |-> ErrorCode(err[r]), body |-> <<>>]

C10_Witness ==
    /\ ErrorHandled(1)
    /\ request[1].method = HEAD
    /\ ~Before(1).committed
    /\ err[1] = NewError("boom")
    /\ debug
    /\ response[1] = [committed |-> TRUE, status |-> 500, body |-> <<>>]

\* ------------------------------------------------------------ URI claims
\* the routes of the registry whose handler identity is the one last asked for
Named == {k \in DOMAIN routes : routes[k].Handler = uris.handler}

\* the pattern with each ":name" segment replaced by the next value, every
\* other byte copied
RECURSIVE Substituted(_, _)
Substituted(pat, vals) ==
    IF pat = <<>> THEN <<>>
    ELSE IF Head(pat) = ":"
         THEN Sprintf(Head(vals)) \o
              Substituted(SubSeq(pat, NextSlash(pat, 1), Len(pat)), Tail(vals))
    ELSE <<Head(pat)>> \o Substituted(Tail(pat), vals)

\* C11: for a handler registered on exactly one path pattern with k ":name"
\* segments, URI with exactly k values returns the pattern with the i-th
\* ":name" segment replaced by the i-th value and every other byte copied
C11_URISubstitutes ==
    (uris.results # <<>> /\ Cardinality(Named) = 1) =>
        \A k \in Named :
            Len(PNames(routes[k].Path, 1)) = Len(uris.params) =>
                \A i \in 1..Len(uris.results) :
                    uris.results[i] = Substituted(routes[k].Path, uris.params)

C11_Witness ==
    /\ routes[<<GET, PatPosts>>].Handler = "h1"
    /\ routes[<<GET, PatUser>>].Handler = "h2"
    /\ uris.handler = "h1"
    /\ uris.params = <<StringValue(<<"7">>), IntValue(42)>>
    /\ uris.results = <<<<"/", "p", "o", "s", "t", "s", "/", "7", "/",
                          "c", "o", "m", "m", "e", "n", "t", "s", "/", "4", "2">>>>

\* the first registered of the routes of the name
FirstNamed ==
    order[CHOOSE i \in 1..Len(order) :
              order[i] \in Named /\ \A j \in 1..(i - 1) : order[j] \notin Named]

\* C12 as stated: URI builds its result from the first registered of the
\* routes with the handler identity, so that repeated calls with the same
\* arguments on the same registry return the same URI; with no such route it
\* returns the empty string
C12_FirstRegisteredRoute ==
    \A i \in 1..Len(uris.results) :
        uris.results[i] = IF Named = {} THEN <<>>
                          ELSE RouteURI(routes[FirstNamed], uris.params)

\* ------------------------------------------------------- concurrency claim
\* the request of the slot is using its context: from Get to Put, or to the
\* panic that ends it
InUse(r) == pc[r] \in {"got", "call", "ret", "put", "panicked"}

\* C16: under any interleaving of concurrent ServeHTTP calls no context is
\* held by two requests in flight, no context is in the pool while a request
\* uses it, a context is in the pool again only once the request that held
\* it has run its result handler and put it back, and what a request finds
\* on its context (request, parameters, data, resolved handler) is what it
\* wrote itself
C16_ContextsNotShared ==
    /\ \A r1, r2 \in Reqs :
          (r1 # r2 /\ InUse(r1) /\ InUse(r2)) => held[r1] # held[r2]
    /\ \A r \in Reqs :
          /\ InUse(r) => (held[r] # 0 /\ held[r] \notin pool)
          /\ (held[r] # 0 /\ held[r] \in pool) =>
                /\ pc[r] = "done"
                /\ Len(ResultEvents(log[r])) = 1
                /\ log[r][Len(log[r])] = EvPut(held[r])
          /\ pc[r] \in {"call", "ret", "put"} =>
                LET c == ctxs[held[r]] IN
                /\ c.request = r
                /\ c.data # {} => \E i \in 1..Len(log[r]) : log[r][i].ev = "handler"
                /\ IF Events(log[r], {"find"}) = <<>>
                   THEN /\ c.handler = NotFoundHandler
                        /\ c.pnames = <<>>
                        /\ \A i \in 1..Len(c.pvalues) : c.pvalues[i] = <<>>
                   ELSE /\ c.handler = tree[<<GET, PatId>>]
                        /\ c.pvalues[1] = SubSeq(request[r].path, 2, Len(request[r].path))

C16_Witness ==
    /\ pc[1] = "call"
    /\ pc[2] = "ret"
    /\ held[1] = 2
    /\ held[2] = 1
    /\ seen[1] # NoCtx
    /\ seen[1].data # {}
    /\ ctxs[1].data # {}
    /\ ctxs[2].data = {}

\* ------------------------------------------------------ WrapMiddleware claim
\* C15: in a chain of middleware made by WrapMiddleware, the first wrapped
\* handler that returns an error stops the calls inward: nothing further in
\* is called, the terminal handler included, and that error is what the
\* result handler gets; when every wrapped handler returns nil the terminal
\* handler is called exactly once and what it returns is what is passed on
C15_FirstErrorShortCircuits ==
    \A r \in Reqs :
        LET stops == Events(log[r], {"stop"})
            results == Events(log[r], {"result"})
        IN /\ Len(stops) <= 1
           /\ \A i \in 1..Len(log[r]) :
                 log[r][i].ev = "stop" =>
                     \A j \in (i + 1)..Len(log[r]) :
                         log[r][j].ev \notin {"enter", "stop", "find", "route", "factory",
                                              "handler", "result", "write"}
                                \/ log[r][j] = EvWrite("errorHandler")
           /\ (pc[r] \in {"put", "done"} /\ stops # <<>>) =>
                 /\ Events(log[r], {"handler"}) = <<>>
                 /\ Len(ResultEvents(log[r])) = 1
                 /\ ResultEvents(log[r])[1].ev = "errorHandler"
                 /\ ResultEvents(log[r])[1].err =
                       StopError([chain |-> stops[1].chain, idx |-> stops[1].idx])
           /\ (pc[r] \in {"put", "done"} /\ stops = <<>>) =>
                 /\ Len(Events(log[r], {"handler"})) = 1
                 /\ Len(results) = 1
                 /\ Len(ResultEvents(log[r])) = 1
                 /\ IF results[1].err # Nil
                    THEN /\ ResultEvents(log[r])[1].ev = "errorHandler"
                         /\ ResultEvents(log[r])[1].err = results[1].err
                    ELSE ResultEvents(log[r])[1].ev = "successHandler"

C15_Witness ==
    /\ pc[1] = "done"
    /\ Len(premiddleware) = MaxMw
    /\ Events(log[1], {"enter", "stop", "find", "handler"}) =
          <<EvEnter(MwLayer("pre", 1)), EvEnter(MwLayer("pre", 2)), EvFind,
            EvEnter(MwLayer("use", 1)), EvEnter(MwLayer("use", 2)),
            EvStop(MwLayer("use", 2))>>
    /\ Events(log[1], {"exit"}) =
          <<EvExit(MwLayer("use", 1)), EvExit(MwLayer("pre", 2)), EvExit(MwLayer("pre", 1))>>
    /\ ResultEvents(log[1])[1].err = StopError(MwLayer("use", 2))

\* ------------------------------------------------------- not-found claim
\* the router has looked the request up and no route matches its path under
\* any method
Unmatched(r) ==
    /\ Events(log[r], {"find"}) # <<>>
    /\ \A o \in RouteMethods \cup {request[r].method} :
          Matching(tree, o, request[r].path) = {}

\* C17: for a request that reaches the router and matches no route, what the
\* global middleware wraps is the not-found handler: every global middleware
\* runs, in the order of declaration, the innermost call returns the 404
\* error, that error goes to the error handler, and no route handler runs,
\* whatever an earlier request resolved on the same context
C17_NotFoundWrapped ==
    \A r \in Reqs :
        (Unmatched(r) /\ pc[r] # "panicked") =>
            /\ ctxs[held[r]].handler = NotFoundHandler
            /\ Events(log[r], {"route"}) = <<>>
            /\ \A i \in 1..Len(log[r]) :
                  log[r][i].ev = "handler" => log[r][i].name = "notfound"
            /\ \A i \in 1..Len(log[r]) :
                  log[r][i].ev = "result" => log[r][i].err = ErrNotFound
            /\ (ChainReturned(r) /\ AllCalledNext(r)) =>
                  /\ ChainEvents(log[r], "use", {"handler"}) =
                        Onion(middleware, EvHandler("notfound"))
                  /\ err[r] = NewHTTPError(StatusNotFound, <<"Not Found">>)
            /\ (pc[r] \in {"put", "done"} /\ AllCalledNext(r)) =>
                  /\ Len(ResultEvents(log[r])) = 1
                  /\ ResultEvents(log[r])[1].ev = "errorHandler"
                  /\ ResultEvents(log[r])[1].err = ErrNotFound

C17_Witness ==
    /\ pc[1] = "done"
    /\ Unmatched(1)
    /\ AllCalledNext(1)
    /\ Len(middleware) = MaxMw
    /\ tree[<<GET, PathA>>] # NoHandler
    /\ Len(Events(log[1], {"exit"})) = MaxMw + Len(premiddleware)
    /\ response[1].status = StatusNotFound

\* ------------------------------------------------ parameter slice claim
\* the largest number of parameters of a registered route
MaxParamCount ==
    LET counts == {Len(PNames(routes[k].Path, 1)) : k \in {x \in DOMAIN routes : routes[x] # NoRoute}}
    IN IF counts = {} THEN 0 ELSE CHOOSE n \in counts : \A m \in counts : m <= n

\* C18 as stated: every context handed to a request has a parameter-value
\* slice of at least the largest parameter count of the routes registered at
\* the moment the request is served
C18_SizedForRegisteredRoutes ==
    \A r \in Reqs :
        held[r] # 0 => Len(ctxs[held[r]].pvalues) >= MaxParamCount

\* C18, amended: a context gets, when the pool's factory creates it, a slice
\* of the largest parameter count of the routes registered at that moment,
\* and keeps that size as long as it lives, whatever is registered later
C18_SizedWhenCreated ==
    [][\A c \in 1..Len(ctxs') :
          IF c > Len(ctxs)
          THEN Len(ctxs'[c].pvalues) = MaxParamCount
          ELSE (ctxs[c] # NoCtx /\ ctxs'[c] # NoCtx) =>
                   Len(ctxs'[c].pvalues) = Len(ctxs[c].pvalues)]_vars

C18_Witness ==
    /\ pc[1] = "call"
    /\ Events(log[1], {"find"}) = <<>>
    /\ request[1].path = PathB
    /\ tree[<<GET, PatId>>] # NoHandler
    /\ MaxParamCount = 1
    /\ Len(ctxs[held[1]].pvalues) = 0

\* ------------------------------------------- trailing-slash middleware claims
EndsInSlash(path) == path # <<>> /\ path[Len(path)] = "/"

\* "?" and the query string, when there is one
QuerySuffix(req) == IF req.query # <<>> THEN <<"?">> \o req.query ELSE <<>>

\* the normal form of a path for a middleware: one "/" more, or one less
WithSlash(path) == path \o <<"/">>
WithoutSlash(path) == SubSeq(path, 1, Len(path) - 1)

\* the trailing-slash middleware runs of a request that did not skip
IsSlash(e) == e.ev = "slash"
Ran(e) == e.ev = "slash" /\ ~e.skip

\* the middleware is to normalise the path of the request it was given
ToNormalise(e) ==
    /\ e.before.path # Root
    /\ IF e.op = "add" THEN ~EndsInSlash(e.before.path) ELSE EndsInSlash(e.before.path)

\* the target the middleware is to produce
Normalised(e) ==
    (IF e.op = "add" THEN WithSlash(e.before.path) ELSE WithoutSlash(e.before.path))
        \o QuerySuffix(e.before)

\* none of the trailing-slash middleware of the request redirected or failed
AllPassedOn(r) ==
    \A i \in 1..Len(log[r]) : IsSlash(log[r][i]) => log[r][i].did \notin {"redirect", "panic"}

\* C13: with the skip predicate false, AddTrailingSlash on a path other than
\* "/" that does not end in "/" produces path + "/" and the query suffix,
\* RemoveTrailingSlash on a path other than "/" that ends in "/" produces the
\* path without its last "/" and the query suffix, the query string
\* unchanged; on "/" and on a path in normal form each leaves path and URI
\* as they are, redirects nothing and calls next exactly once
C13_SlashNormalises ==
    \A r \in Reqs :
        /\ \A i \in 1..Len(log[r]) :
              LET e == log[r][i] IN
              Ran(e) =>
                  IF ToNormalise(e)
                  THEN /\ e.did \in {"forward", "redirect"}
                       /\ e.target = Normalised(e)
                       /\ e.after.query = e.before.query
                  ELSE /\ e.did = "pass"
                       /\ e.after = e.before
                       /\ e.res = NoResponse
                       /\ i < Len(log[r]) => log[r][i + 1].ev \in {"slash", "find"}
        /\ (ChainReturned(r) /\ AllPassedOn(r)) =>
              /\ Len(Events(log[r], {"find"})) = 1
              /\ Len(Events(log[r], {"slash"})) = Len(premiddleware)

\* C14: a trailing-slash middleware in Pre that normalises a request with a
\* RedirectCode other than zero redirects to the normalised URI with that
\* code, calls nothing further and leaves the path of the request alone, so
\* that no router lookup happens; with RedirectCode zero it rewrites URI and
\* path and calls next, and the route that then runs is the route of the
\* normalised path; when the skip predicate is true it calls next with the
\* request unchanged
C14_RedirectOrForward ==
    \A r \in Reqs :
        /\ \A i \in 1..Len(log[r]) :
              LET e == log[r][i] IN
              IsSlash(e) =>
                  /\ e.did = "redirect" =>
                        /\ ~e.skip /\ e.code # 0 /\ ToNormalise(e)
                        /\ e.res.committed
                        /\ e.res.status = e.code
                        /\ e.res.location = Normalised(e)
                        /\ e.after = e.before
                        /\ request[r] = e.before
                        /\ \A j \in (i + 1)..Len(log[r]) :
                              log[r][j].ev \in {"successHandler", "put"}
                  /\ e.did = "forward" =>
                        /\ ~e.skip /\ e.code = 0 /\ ToNormalise(e)
                        /\ e.after.uri = Normalised(e)
                        /\ e.after.path \o QuerySuffix(e.before) = Normalised(e)
                        /\ e.res = NoResponse
                        /\ i < Len(log[r]) => log[r][i + 1].ev \in {"slash", "find"}
                  /\ (~e.skip /\ ToNormalise(e) /\ e.did # "panic") =>
                        e.did = IF e.code # 0 THEN "redirect" ELSE "forward"
                  /\ e.skip =>
                        /\ e.did = "skip"
                        /\ e.after = e.before
                        /\ e.res = NoResponse
                        /\ i < Len(log[r]) => log[r][i + 1].ev \in {"slash", "find"}
        /\ \A j \in 1..Len(log[r]) :
              log[r][j].ev = "handler" =>
                  log[r][j].name = IF request[r].path \in SlashRoutePaths
                                   THEN SlashHandler(request[r].path) ELSE "notfound"

C14_Witness ==
    /\ pc[1] = "done"
    /\ Len(premiddleware) = 2
    /\ Events(log[1], {"slash"})[1].did = "skip"
    /\ Events(log[1], {"slash"})[2].did = "forward"
    /\ Events(log[1], {"slash"})[2].before.path = PathA
    /\ Events(log[1], {"slash"})[2].before.query # <<>>
    /\ Events(log[1], {"handler"}) = <<EvHandler("h2")>>

\* C19 as stated: for every request path, the empty path included, and with
\* the skip predicate false, AddTrailingSlash and RemoveTrailingSlash
\* complete without a runtime failure: each normalises the request or
\* passes it on unchanged
C19_NoRuntimeFailure ==
    \A r \in Reqs :
        \A i \in 1..Len(log[r]) :
            Ran(log[r][i]) => log[r][i].did \in {"pass", "forward", "redirect"}

\* the middleware ran in forward mode
Forwarding(e) == Ran(e) /\ e.code = 0

\* C20 as stated: in forward mode each middleware changes the path by at
\* most one "/"; AddTrailingSlash applied to its own output changes nothing;
\* RemoveTrailingSlash removes exactly one trailing "/", so that a path that
\* ended in two still ends in one; and for every path other than "/" that
\* does not end in "/", RemoveTrailingSlash applied after AddTrailingSlash
\* restores the path and the URI, with the same query string
C20_OneSlashAtATime ==
    \A r \in Reqs :
        \A i \in 1..Len(log[r]) :
            LET e == log[r][i] IN
            Forwarding(e) =>
                /\ e.after.path \in {e.before.path, WithSlash(e.before.path),
                                      WithoutSlash(e.before.path)}
                /\ (e.op = "remove" /\ ToNormalise(e)) =>
                      /\ e.after.path = WithoutSlash(e.before.path)
                      /\ EndsInSlash(WithoutSlash(e.before.path)) => EndsInSlash(e.after.path)
                /\ (e.op = "add" /\ ToNormalise(e)) =>
                      /\ e.did = "forward"
                      /\ e.after.path = WithSlash(e.before.path)
                /\ (i < Len(log[r]) /\ Forwarding(log[r][i + 1]) /\ e.op = "add") =>
                      LET f == log[r][i + 1] IN
                      /\ f.op = "add" => f.after = f.before
                      /\ (f.op = "remove" /\ ToNormalise(e)) =>
                            /\ f.after.path = e.before.path
                            /\ f.after.uri = e.before.uri
                            /\ f.after.query = e.before.query

====
